---- MODULE Spec2Model ----
(***************************************************************************)
(* Request instrumentation middleware of fastapi_app/utils.py:             *)
(* PrometheusMiddleware.dispatch and OtelMiddleware.dispatch, their route  *)
(* resolver get_path, and the middleware stack built by setting_otlp.      *)
(*                                                                         *)
(* Every request is a process that walks through dispatch one statement    *)
(* that touches an instrument at a time; the instruments are shared by all *)
(* requests.  The downstream handler (call_next) is the environment: it    *)
(* returns a response or raises, at a time of its own choosing.            *)
(***************************************************************************)
EXTENDS Integers, Sequences, FiniteSets, TLC

\* ------------------------------------------------------------------ bounds

\* Number of requests the server receives (all may be in flight at once).
NumRequests == 2

\* Largest value time.perf_counter() reaches.
MaxClock == 1

\* Longest route table drawn for the route-resolution specification.
MaxRoutes == 3

\* ------------------------------------------------------- program constants

HTTP_500_INTERNAL_SERVER_ERROR == 500

\* app_name: str = "fastapi-app"
app_name == "fastapi-app"

None == "None"

Requests == 1..NumRequests

\* -------------------------------------------------------- request inputs

Methods == {"GET", "POST"}

\* Concrete URL paths, as sequences of segments.
UrlPaths == { <<"items", "1">>, <<"items", "special">>, <<"unknown">> }

\* The route table of the served application (request.app.routes), in
\* registration order.  Route 2 is shadowed by route 1 for GET.
AppRoutes ==
    << [path |-> <<"items", "{id}">>,    methods |-> {"GET"}],
       [path |-> <<"items", "special">>, methods |-> {"GET", "POST"}] >>

\* Status codes a handler returns, and the exceptions it raises.  An
\* exception carries its type, its message and its __cause__.
HandlerStatusCodes == {200, 404}

HandlerExceptions ==
    { [type |-> "ValueError",     message |-> "bad value", cause |-> "KeyError"],
      [type |-> "CancelledError", message |-> "",          cause |-> None] }

\* What the metric backend raises when an instrument operation fails.
BackendError == [type |-> "BackendError", message |-> "backend", cause |-> None]

\* The first request ranges over every method, URL path and handler outcome.
\* The requests that run beside it are the concurrent load: GET /items/1,
\* answered with 200 or failing with a ValueError.
AllRequests == [method : Methods, url_path : UrlPaths]

LoadRequests == { [method |-> "GET", url_path |-> <<"items", "1">>] }

RequestsOf(r) == IF r = 1 THEN AllRequests ELSE LoadRequests

StatusCodesOf(r) == IF r = 1 THEN HandlerStatusCodes ELSE {200}

ExceptionsOf(r) ==
    IF r = 1 THEN HandlerExceptions
    ELSE { e \in HandlerExceptions : e.type = "ValueError" }

Response(code) == [kind |-> "response", status_code |-> code]

Raised(e) == [kind |-> "exception", exc |-> e]

HandlerOutcomes ==
    { Response(c) : c \in HandlerStatusCodes } \cup { Raised(e) : e \in HandlerExceptions }

\* ------------------------------------------------------- route resolution

IsParam(seg) == seg \in {"{id}", "{name}"}

\* Whether the route's path regex matches the concrete path: same number of
\* segments, every segment a parameter or the same literal.
PathMatches(template, url_path) ==
    /\ Len(template) = Len(url_path)
    /\ \A i \in 1..Len(template) :
          IsParam(template[i]) \/ template[i] = url_path[i]

\* route.matches(request.scope): Match.NONE, Match.PARTIAL (the path matches,
\* the method does not) or Match.FULL.
matches(route, method, url_path) ==
    IF ~PathMatches(route.path, url_path) THEN "NONE"
    ELSE IF method \notin route.methods THEN "PARTIAL"
    ELSE "FULL"

\* The mutant of IsFull: a partial match counts as a match.
IsFullOrPartial(match) == match # "NONE"

\* if match == Match.FULL
IsFull(match) == match = "FULL"

\* The mutant of get_path_from: the URL path of the request is returned for
\* a matched route too (return request.url.path, True).
get_path_from_url(routes, i, method, url_path) ==
    [path |-> url_path,
     handled |-> \E j \in i..Len(routes) : IsFull(matches(routes[j], method, url_path))]

RECURSIVE get_path_from(_, _, _, _)
\* The for loop of get_path from route i on.
get_path_from(routes, i, method, url_path) ==
    IF i > Len(routes)
    THEN [path |-> url_path, handled |-> FALSE]
    ELSE IF IsFull(matches(routes[i], method, url_path))
         THEN [path |-> routes[i].path, handled |-> TRUE]
         ELSE get_path_from(routes, i + 1, method, url_path)

get_path(routes, method, url_path) == get_path_from(routes, 1, method, url_path)

\* ------------------------------------------------------ middleware stack

\* app.add_middleware(cls): the class added last is the outermost layer
\* (the stack is listed from the outermost layer to the innermost).
add_middleware(stack, cls) == <<cls>> \o stack

\* The mutant of setting_otlp: the app is instrumented before the metrics
\* middleware is added, so the span layer ends up inside it.
setting_otlp_instrument_first ==
    add_middleware(add_middleware(<<>>, "OpenTelemetryMiddleware"), "OtelMiddleware")

\* app.add_middleware(OtelMiddleware, ...) and then
\* FastAPIInstrumentor.instrument_app(app, ...), which adds the tracing
\* layer (OpenTelemetryMiddleware).
setting_otlp ==
    add_middleware(add_middleware(<<>>, "OtelMiddleware"), "OpenTelemetryMiddleware")

\* An application that installs PrometheusMiddleware alone.
prometheus_app == add_middleware(<<>>, "PrometheusMiddleware")

Layers(stack) == { stack[i] : i \in 1..Len(stack) }

IndexOf(stack, cls) == CHOOSE i \in 1..Len(stack) : stack[i] = cls

MetricsMiddleware(stack) ==
    IF "OtelMiddleware" \in Layers(stack) THEN "OtelMiddleware" ELSE "PrometheusMiddleware"

HasSpanLayer(stack) == "OpenTelemetryMiddleware" \in Layers(stack)

\* The span layer wraps the metrics middleware.
SpanLayerOutside(stack) ==
    /\ HasSpanLayer(stack)
    /\ IndexOf(stack, "OpenTelemetryMiddleware") < IndexOf(stack, MetricsMiddleware(stack))

\* The span layer sits between the metrics middleware and the handler.
SpanLayerInside(stack) == HasSpanLayer(stack) /\ ~SpanLayerOutside(stack)

\* ------------------------------------------------------------ instruments

\* A labelled instrument: a function from the label sets seen so far to the
\* value of that series (labels() creates a series on first use).
Value(instrument, labels) ==
    IF labels \in DOMAIN instrument THEN instrument[labels] ELSE 0

\* .labels(**labels).inc() / .dec() and .add(amount, attributes).
Add(instrument, labels, amount) ==
    IF labels \in DOMAIN instrument
    THEN [instrument EXCEPT ![labels] = @ + amount]
    ELSE instrument @@ (labels :> amount)

\* .labels(**labels).observe(amount) and .record(amount, attributes): the
\* histogram keeps the count and the sum of its samples.
Observe(histogram, labels, amount) ==
    IF labels \in DOMAIN histogram
    THEN [histogram EXCEPT ![labels] =
             [count |-> @.count + 1, sum |-> @.sum + amount]]
    ELSE histogram @@ (labels :> [count |-> 1, sum |-> amount])

\* ------------------------------------------------------------------ state

VARIABLES
    middleware_stack,          \* the layers installed on the app, outermost first
    clock,                     \* time.perf_counter()
    REQUESTS,                  \* fastapi_requests_total
    RESPONSES,                 \* fastapi_responses_total
    EXCEPTIONS,                \* fastapi_exceptions_total
    REQUESTS_IN_PROGRESS,      \* fastapi_requests_in_progress
    REQUESTS_PROCESSING_TIME,  \* fastapi_requests_duration_seconds
    pc,                        \* where each request stands in dispatch
    request,                   \* each request's method and URL path
    path,                      \* dispatch's local: the route identifier
    is_handled_path,           \* dispatch's local
    before_time,               \* dispatch's local
    status_code,               \* dispatch's local
    response,                  \* dispatch's local: what call_next returned
    exc,                       \* the exception propagating out of dispatch
    outcome,                   \* what the downstream handler did (history)
    result,                    \* what the caller of dispatch received
    log,                       \* each request's instrument operations (history)
    span,                      \* each request's server span
    routes,                    \* route resolution: the route table drawn
    resolved                   \* route resolution: the result of get_path

instruments ==
    <<REQUESTS, RESPONSES, EXCEPTIONS, REQUESTS_IN_PROGRESS, REQUESTS_PROCESSING_TIME>>

locals == <<path, is_handled_path, before_time, status_code, response, exc>>

resolver == <<routes, resolved>>

vars ==
    <<middleware_stack, clock, instruments, pc, request, locals, outcome, result,
      log, span, resolver>>

NoRequest == [method |-> None, url_path |-> <<>>]

NoException == [type |-> None, message |-> "", cause |-> None]

NoResult == [kind |-> None]

NotResolved == [path |-> <<>>, handled |-> FALSE]

\* A local that is not bound yet.
Unbound == 0 - 1

Init ==
    /\ middleware_stack \in {prometheus_app, setting_otlp}
    /\ clock = 0
    /\ REQUESTS = <<>>
    /\ RESPONSES = <<>>
    /\ EXCEPTIONS = <<>>
    /\ REQUESTS_IN_PROGRESS = <<>>
    /\ REQUESTS_PROCESSING_TIME = <<>>
    /\ pc = [r \in Requests |-> "idle"]
    /\ request = [r \in Requests |-> NoRequest]
    /\ path = [r \in Requests |-> <<>>]
    /\ is_handled_path = [r \in Requests |-> FALSE]
    /\ before_time = [r \in Requests |-> Unbound]
    /\ status_code = [r \in Requests |-> Unbound]
    /\ response = [r \in Requests |-> NoResult]
    /\ exc = [r \in Requests |-> NoException]
    /\ outcome = [r \in Requests |-> NoResult]
    /\ result = [r \in Requests |-> NoResult]
    /\ log = [r \in Requests |-> <<>>]
    /\ span = [r \in Requests |-> "none"]
    /\ routes = AppRoutes
    /\ resolved = NotResolved

\* ---------------------------------------------------------------- labels

\* The mutant of attributes: the method label is a constant instead of the
\* method of the request.
attributes_of_get(r) ==
    [method |-> "GET", path |-> path[r], app_name |-> app_name]

\* attributes = {"method": method, "path": path, "app_name": self.app_name}
attributes(r) ==
    [method |-> request[r].method, path |-> path[r], app_name |-> app_name]

\* The mutant of exception_attributes: the exception is tagged with the
\* class the except clause names instead of its own type.
exception_attributes_of_clause(r, e) ==
    [method |-> request[r].method, path |-> path[r], app_name |-> app_name,
     exception_type |-> "BaseException"]

\* attributes.copy() updated with {"exception_type": type(e).__name__}
exception_attributes(r, e) ==
    [method |-> request[r].method, path |-> path[r], app_name |-> app_name,
     exception_type |-> e.type]

\* The mutant of response_attributes: the response is labelled with the
\* URL path of the request instead of the route identifier.
response_attributes_of_url(r) ==
    [method |-> request[r].method, path |-> request[r].url_path,
     app_name |-> app_name, status_code |-> status_code[r]]

\* attributes.copy() updated with {"status_code": status_code}
response_attributes(r) ==
    [method |-> request[r].method, path |-> path[r], app_name |-> app_name,
     status_code |-> status_code[r]]

\* One instrument operation of a request, as the log keeps it.
Event(instrument, labels, amount, exemplar) ==
    [instrument |-> instrument, labels |-> labels, amount |-> amount,
     exemplar |-> exemplar]

Logged(r, e) == log' = [log EXCEPT ![r] = Append(@, e)]

\* ------------------------------------------------------------------ spans

\* The tracing layer starts a server span when a request enters it and ends
\* it when the request leaves it, by return or by exception.  `here` says
\* whether the tracing layer is passed at this point of the stack.
SpanStarted(r, here) == span' = [span EXCEPT ![r] = IF here THEN "started" ELSE @]

SpanEnded(r, here) == span' = [span EXCEPT ![r] = IF here THEN "ended" ELSE @]

\* The trace id of the span the tracing layer starts for request r; the
\* invalid span (no span is current) has trace id 0.
TraceId(r) == IF span[r] = "started" THEN r ELSE 0

HexDigit(d) == SubSeq("0123456789abcdef", d + 1, d + 1)

RECURSIVE Hex(_, _)
\* format(n, "0<width>x")
Hex(n, width) ==
    IF width = 0 THEN ""
    ELSE Hex(n \div 16, width - 1) \o HexDigit(n % 16)

\* trace.format_trace_id(span.get_span_context().trace_id)
format_trace_id(trace_id) == Hex(trace_id, 32)

\* The exemplar attached to the duration sample: the trace id of the
\* current span in PrometheusMiddleware, none in OtelMiddleware.
Exemplar(r) ==
    IF MetricsMiddleware(middleware_stack) = "PrometheusMiddleware"
    THEN format_trace_id(TraceId(r))
    ELSE None

\* ---------------------------------------------------------------- dispatch

\* The mutant of Bypass: the check of is_handled_path is missing.
BypassNever(handled) == FALSE

\* if not is_handled_path: return await call_next(request)
Bypass(handled) == ~handled

\* The mutant of Elapsed: the operands are swapped.
ElapsedSwapped(before, after) == before - after

\* after_time - before_time
Elapsed(before, after) == after - before

\* raise e from None: the same exception, its __cause__ cleared.
Reraise(e) == [e EXCEPT !.cause = None]

\* The server hands request r, with method m and URL path u, to the
\* middleware stack.  Requests are numbered in their order of arrival.  A
\* tracing layer outside the metrics middleware starts its span here.
Receive(r, m, u) ==
    /\ pc[r] = "idle"
    /\ \A q \in Requests : q < r => pc[q] # "idle"
    /\ request' = [request EXCEPT ![r] = [method |-> m, url_path |-> u]]
    /\ SpanStarted(r, SpanLayerOutside(middleware_stack))
    /\ pc' = [pc EXCEPT ![r] = "dispatch"]
    /\ UNCHANGED <<middleware_stack, clock, instruments, locals, outcome, result,
                   log, resolver>>

\* method = request.method; path, is_handled_path = self.get_path(request);
\* the unhandled path goes straight to call_next.
Dispatch(r) ==
    /\ pc[r] = "dispatch"
    /\ LET found == get_path(routes, request[r].method, request[r].url_path)
       IN  /\ path' = [path EXCEPT ![r] = found.path]
           /\ is_handled_path' = [is_handled_path EXCEPT ![r] = found.handled]
           /\ pc' = [pc EXCEPT ![r] =
                        IF Bypass(found.handled) THEN "call_next" ELSE "inc_in_progress"]
           /\ SpanStarted(r, SpanLayerInside(middleware_stack) /\ Bypass(found.handled))
    /\ UNCHANGED <<middleware_stack, clock, instruments, request, before_time,
                   status_code, response, exc, outcome, result, log, resolver>>

\* The mutant of IncInProgress: the increment of the gauge is missing.
IncInProgressOmitted(r) ==
    /\ pc[r] = "inc_in_progress"
    /\ pc' = [pc EXCEPT ![r] = "inc_requests"]
    /\ UNCHANGED <<middleware_stack, clock, instruments, request, locals, outcome,
                   result, log, span, resolver>>

\* The mutant of IncInProgress: the gauge is set to 1 (.set(1)) instead of
\* being incremented, so concurrent requests overwrite each other.
IncInProgressSets(r) ==
    /\ pc[r] = "inc_in_progress"
    /\ REQUESTS_IN_PROGRESS' =
           IF attributes(r) \in DOMAIN REQUESTS_IN_PROGRESS
           THEN [REQUESTS_IN_PROGRESS EXCEPT ![attributes(r)] = 1]
           ELSE REQUESTS_IN_PROGRESS @@ (attributes(r) :> 1)
    /\ Logged(r, Event("requests_in_progress", attributes(r), 1, None))
    /\ pc' = [pc EXCEPT ![r] = "inc_requests"]
    /\ UNCHANGED <<middleware_stack, clock, REQUESTS, RESPONSES, EXCEPTIONS,
                   REQUESTS_PROCESSING_TIME, request, locals, outcome, result,
                   span, resolver>>

\* REQUESTS_IN_PROGRESS.labels(...).inc() / m_requests_in_progress.add(1, attributes)
IncInProgress(r) ==
    /\ pc[r] = "inc_in_progress"
    /\ REQUESTS_IN_PROGRESS' = Add(REQUESTS_IN_PROGRESS, attributes(r), 1)
    /\ Logged(r, Event("requests_in_progress", attributes(r), 1, None))
    /\ pc' = [pc EXCEPT ![r] = "inc_requests"]
    /\ UNCHANGED <<middleware_stack, clock, REQUESTS, RESPONSES, EXCEPTIONS,
                   REQUESTS_PROCESSING_TIME, request, locals, outcome, result,
                   span, resolver>>

\* The mutant of IncRequests: OtelMiddleware does not count the request
\* (m_requests.add is missing), PrometheusMiddleware does.
IncRequestsPrometheusOnly(r) ==
    /\ pc[r] = "inc_requests"
    /\ IF MetricsMiddleware(middleware_stack) = "PrometheusMiddleware"
       THEN /\ REQUESTS' = Add(REQUESTS, attributes(r), 1)
            /\ Logged(r, Event("requests", attributes(r), 1, None))
       ELSE UNCHANGED <<REQUESTS, log>>
    /\ before_time' = [before_time EXCEPT ![r] = clock]
    /\ SpanStarted(r, SpanLayerInside(middleware_stack))
    /\ pc' = [pc EXCEPT ![r] = "call_next"]
    /\ UNCHANGED <<middleware_stack, clock, RESPONSES, EXCEPTIONS,
                   REQUESTS_IN_PROGRESS, REQUESTS_PROCESSING_TIME, request, path,
                   is_handled_path, status_code, response, exc, outcome, result,
                   resolver>>

\* The mutant of IncRequests: the gauge is decremented before the handler
\* is awaited instead of in the finally block's place after it.
IncRequestsThenDec(r) ==
    /\ pc[r] = "inc_requests"
    /\ REQUESTS' = Add(REQUESTS, attributes(r), 1)
    /\ REQUESTS_IN_PROGRESS' = Add(REQUESTS_IN_PROGRESS, attributes(r), -1)
    /\ log' = [log EXCEPT ![r] =
                  @ \o << Event("requests", attributes(r), 1, None),
                          Event("requests_in_progress", attributes(r), -1, None) >>]
    /\ before_time' = [before_time EXCEPT ![r] = clock]
    /\ SpanStarted(r, SpanLayerInside(middleware_stack))
    /\ pc' = [pc EXCEPT ![r] = "call_next"]
    /\ UNCHANGED <<middleware_stack, clock, RESPONSES, EXCEPTIONS,
                   REQUESTS_PROCESSING_TIME, request, path, is_handled_path,
                   status_code, response, exc, outcome, result, resolver>>

\* REQUESTS.labels(...).inc() / m_requests.add(1, attributes);
\* before_time = time.perf_counter(); then call_next is entered.  A tracing
\* layer inside the metrics middleware starts its span on the way in.
IncRequests(r) ==
    /\ pc[r] = "inc_requests"
    /\ REQUESTS' = Add(REQUESTS, attributes(r), 1)
    /\ Logged(r, Event("requests", attributes(r), 1, None))
    /\ before_time' = [before_time EXCEPT ![r] = clock]
    /\ SpanStarted(r, SpanLayerInside(middleware_stack))
    /\ pc' = [pc EXCEPT ![r] = "call_next"]
    /\ UNCHANGED <<middleware_stack, clock, RESPONSES, EXCEPTIONS,
                   REQUESTS_IN_PROGRESS, REQUESTS_PROCESSING_TIME, request, path,
                   is_handled_path, status_code, response, exc, outcome, result,
                   resolver>>

\* response = await call_next(request) returns a response with status code
\* `code`.  On the unhandled path dispatch returns it as it is.
CallNextReturns(r, code) ==
    /\ pc[r] = "call_next"
    /\ outcome' = [outcome EXCEPT ![r] = Response(code)]
    /\ response' = [response EXCEPT ![r] = Response(code)]
    /\ SpanEnded(r, SpanLayerInside(middleware_stack))
    /\ pc' = [pc EXCEPT ![r] = IF is_handled_path[r] THEN "else" ELSE "exit"]
    /\ UNCHANGED <<middleware_stack, clock, instruments, request, path,
                   is_handled_path, before_time, status_code, exc, result, log,
                   resolver>>

\* The mutant of CallNextRaises: a handler call that raised is made again.
CallNextRaisesRetried(r, e) ==
    /\ pc[r] = "call_next"
    /\ outcome' = [outcome EXCEPT ![r] = Raised(e)]
    /\ UNCHANGED <<middleware_stack, clock, instruments, pc, request, locals,
                   result, log, span, resolver>>

\* The mutant of CallNextRaises: the clause is `except Exception` and the
\* bookkeeping is not in a finally block, so a cancellation (a
\* BaseException) leaves dispatch at once.
CallNextRaisesUncaught(r, e) ==
    /\ pc[r] = "call_next"
    /\ outcome' = [outcome EXCEPT ![r] = Raised(e)]
    /\ exc' = [exc EXCEPT ![r] = e]
    /\ SpanEnded(r, SpanLayerInside(middleware_stack))
    /\ pc' = [pc EXCEPT ![r] =
                 IF is_handled_path[r] /\ e.type # "CancelledError"
                 THEN "except" ELSE "exit"]
    /\ UNCHANGED <<middleware_stack, clock, instruments, request, path,
                   is_handled_path, before_time, status_code, response, result, log,
                   resolver>>

\* await call_next(request) raises e (an exception of the handler, or the
\* cancellation of the call).  On the unhandled path it propagates as it is.
CallNextRaises(r, e) ==
    /\ pc[r] = "call_next"
    /\ outcome' = [outcome EXCEPT ![r] = Raised(e)]
    /\ exc' = [exc EXCEPT ![r] = e]
    /\ SpanEnded(r, SpanLayerInside(middleware_stack))
    /\ pc' = [pc EXCEPT ![r] = IF is_handled_path[r] THEN "except" ELSE "exit"]
    /\ UNCHANGED <<middleware_stack, clock, instruments, request, path,
                   is_handled_path, before_time, status_code, response, result, log,
                   resolver>>

\* The mutant of Else: the response is handed back to the caller from the
\* else block, and the rest of the bookkeeping runs after the caller has it.
ElseDefersBookkeeping(r) ==
    /\ pc[r] = "else"
    /\ status_code' = [status_code EXCEPT ![r] = response[r].status_code]
    /\ REQUESTS_PROCESSING_TIME' =
           Observe(REQUESTS_PROCESSING_TIME, attributes(r),
                   Elapsed(before_time[r], clock))
    /\ Logged(r, Event("requests_processing_time", attributes(r),
                       Elapsed(before_time[r], clock), Exemplar(r)))
    /\ result' = [result EXCEPT ![r] = response[r]]
    /\ pc' = [pc EXCEPT ![r] = "finally_responses"]
    /\ UNCHANGED <<middleware_stack, clock, REQUESTS, RESPONSES, EXCEPTIONS,
                   REQUESTS_IN_PROGRESS, request, path, is_handled_path,
                   before_time, response, exc, outcome, span, resolver>>

\* else: status_code = response.status_code; after_time = time.perf_counter();
\* the duration is observed (with the trace id as exemplar in
\* PrometheusMiddleware).
Else(r) ==
    /\ pc[r] = "else"
    /\ status_code' = [status_code EXCEPT ![r] = response[r].status_code]
    /\ LET after_time == clock
           elapsed == Elapsed(before_time[r], after_time)
       IN  /\ REQUESTS_PROCESSING_TIME' =
                  Observe(REQUESTS_PROCESSING_TIME, attributes(r), elapsed)
           /\ Logged(r, Event("requests_processing_time", attributes(r), elapsed,
                              Exemplar(r)))
    /\ pc' = [pc EXCEPT ![r] = "finally_responses"]
    /\ UNCHANGED <<middleware_stack, clock, REQUESTS, RESPONSES, EXCEPTIONS,
                   REQUESTS_IN_PROGRESS, request, path, is_handled_path,
                   before_time, response, exc, outcome, result, span, resolver>>

\* The mutant of Except: the duration is observed on the failure path too.
ExceptObservesDuration(r) ==
    /\ pc[r] = "except"
    /\ status_code' = [status_code EXCEPT ![r] = HTTP_500_INTERNAL_SERVER_ERROR]
    /\ EXCEPTIONS' = Add(EXCEPTIONS, exception_attributes(r, exc[r]), 1)
    /\ REQUESTS_PROCESSING_TIME' =
           Observe(REQUESTS_PROCESSING_TIME, attributes(r),
                   Elapsed(before_time[r], clock))
    /\ log' = [log EXCEPT ![r] =
                  @ \o << Event("exceptions", exception_attributes(r, exc[r]), 1, None),
                          Event("requests_processing_time", attributes(r),
                                Elapsed(before_time[r], clock), Exemplar(r)) >>]
    /\ exc' = [exc EXCEPT ![r] = Reraise(@)]
    /\ pc' = [pc EXCEPT ![r] = "finally_responses"]
    /\ UNCHANGED <<middleware_stack, clock, REQUESTS, RESPONSES,
                   REQUESTS_IN_PROGRESS, request, path, is_handled_path,
                   before_time, response, outcome, result, span, resolver>>

\* The mutant of Except: the terminal bookkeeping stands after the try
\* statement instead of in a finally block, so `raise e from None` leaves
\* dispatch without it.
ExceptSkipsBookkeeping(r) ==
    /\ pc[r] = "except"
    /\ status_code' = [status_code EXCEPT ![r] = HTTP_500_INTERNAL_SERVER_ERROR]
    /\ EXCEPTIONS' = Add(EXCEPTIONS, exception_attributes(r, exc[r]), 1)
    /\ Logged(r, Event("exceptions", exception_attributes(r, exc[r]), 1, None))
    /\ exc' = [exc EXCEPT ![r] = Reraise(@)]
    /\ pc' = [pc EXCEPT ![r] = "exit"]
    /\ UNCHANGED <<middleware_stack, clock, REQUESTS, RESPONSES,
                   REQUESTS_IN_PROGRESS, REQUESTS_PROCESSING_TIME, request, path,
                   is_handled_path, before_time, response, outcome, result, span,
                   resolver>>

\* except BaseException as e: status_code = HTTP_500_INTERNAL_SERVER_ERROR;
\* the exception counter is incremented; raise e from None.
Except(r) ==
    /\ pc[r] = "except"
    /\ status_code' = [status_code EXCEPT ![r] = HTTP_500_INTERNAL_SERVER_ERROR]
    /\ EXCEPTIONS' = Add(EXCEPTIONS, exception_attributes(r, exc[r]), 1)
    /\ Logged(r, Event("exceptions", exception_attributes(r, exc[r]), 1, None))
    /\ exc' = [exc EXCEPT ![r] = Reraise(@)]
    /\ pc' = [pc EXCEPT ![r] = "finally_responses"]
    /\ UNCHANGED <<middleware_stack, clock, REQUESTS, RESPONSES,
                   REQUESTS_IN_PROGRESS, REQUESTS_PROCESSING_TIME, request, path,
                   is_handled_path, before_time, response, outcome, result, span,
                   resolver>>

\* finally: RESPONSES.labels(...).inc() / m_responses.add(1, response_attributes)
FinallyResponses(r) ==
    /\ pc[r] = "finally_responses"
    /\ RESPONSES' = Add(RESPONSES, response_attributes(r), 1)
    /\ Logged(r, Event("responses", response_attributes(r), 1, None))
    /\ pc' = [pc EXCEPT ![r] = "finally_dec"]
    /\ UNCHANGED <<middleware_stack, clock, REQUESTS, EXCEPTIONS,
                   REQUESTS_IN_PROGRESS, REQUESTS_PROCESSING_TIME, request, locals,
                   outcome, result, span, resolver>>

\* The mutant of FinallyDec: the decrement stands at the end of the else
\* block, so a request whose handler raised never decrements the gauge.
FinallyDecOnSuccessOnly(r) ==
    /\ pc[r] = "finally_dec"
    /\ IF exc[r] = NoException
       THEN /\ REQUESTS_IN_PROGRESS' = Add(REQUESTS_IN_PROGRESS, attributes(r), -1)
            /\ Logged(r, Event("requests_in_progress", attributes(r), -1, None))
       ELSE UNCHANGED <<REQUESTS_IN_PROGRESS, log>>
    /\ pc' = [pc EXCEPT ![r] = "exit"]
    /\ UNCHANGED <<middleware_stack, clock, REQUESTS, RESPONSES, EXCEPTIONS,
                   REQUESTS_PROCESSING_TIME, request, locals, outcome, result,
                   span, resolver>>

\* finally: REQUESTS_IN_PROGRESS.labels(...).dec() /
\* m_requests_in_progress.add(-1, attributes)
FinallyDec(r) ==
    /\ pc[r] = "finally_dec"
    /\ REQUESTS_IN_PROGRESS' = Add(REQUESTS_IN_PROGRESS, attributes(r), -1)
    /\ Logged(r, Event("requests_in_progress", attributes(r), -1, None))
    /\ pc' = [pc EXCEPT ![r] = "exit"]
    /\ UNCHANGED <<middleware_stack, clock, REQUESTS, RESPONSES, EXCEPTIONS,
                   REQUESTS_PROCESSING_TIME, request, locals, outcome, result,
                   span, resolver>>

\* dispatch returns response, or the pending exception leaves it; the
\* caller receives it.  A tracing layer outside the metrics middleware
\* ends its span on the way out.
Exit(r) ==
    /\ pc[r] = "exit"
    /\ result' = [result EXCEPT ![r] =
                     IF exc[r] # NoException THEN Raised(exc[r]) ELSE response[r]]
    /\ SpanEnded(r, SpanLayerOutside(middleware_stack))
    /\ pc' = [pc EXCEPT ![r] = "done"]
    /\ UNCHANGED <<middleware_stack, clock, instruments, request, locals, outcome,
                   log, resolver>>

\* Time passes while a handler is running (the statements of dispatch take
\* no time of their own).
Tick ==
    /\ clock < MaxClock
    /\ \E r \in Requests : pc[r] = "call_next"
    /\ clock' = clock + 1
    /\ UNCHANGED <<middleware_stack, instruments, pc, request, locals, outcome,
                   result, log, span, resolver>>

\* One statement of the dispatch of one request.
Step ==
    \/ \E r \in Requests : \E q \in RequestsOf(r) : Receive(r, q.method, q.url_path)
    \/ \E r \in Requests : Dispatch(r)
    \/ \E r \in Requests : IncInProgress(r)
    \/ \E r \in Requests : IncRequests(r)
    \/ \E r \in Requests : \E code \in StatusCodesOf(r) : CallNextReturns(r, code)
    \/ \E r \in Requests : \E e \in ExceptionsOf(r) : CallNextRaises(r, e)
    \/ \E r \in Requests : Else(r)
    \/ \E r \in Requests : Except(r)
    \/ \E r \in Requests : FinallyResponses(r)
    \/ \E r \in Requests : FinallyDec(r)
    \/ \E r \in Requests : Exit(r)

Next == Step \/ Tick

Spec == Init /\ [][Next]_vars

\* The same requests with the clock standing still.  No statement of
\* dispatch depends on the clock but the elapsed time it records, so what
\* the requests do to the instruments but for that amount is the same
\* with and without Tick.
SpecUntimed == Init /\ [][Step]_vars

\* ------------------------------------------------------------ scheduling

\* The statements of dispatch for request r, and the completion of its
\* handler call.
StepOf(r) ==
    \/ Dispatch(r)
    \/ IncInProgress(r)
    \/ IncRequests(r)
    \/ \E code \in StatusCodesOf(r) : CallNextReturns(r, code)
    \/ \E e \in ExceptionsOf(r) : CallNextRaises(r, e)
    \/ Else(r)
    \/ Except(r)
    \/ FinallyResponses(r)
    \/ FinallyDec(r)
    \/ Exit(r)

\* The event loop runs every coroutine that is ready to run, and every
\* handler call eventually returns or raises.  A request dispatch awaits
\* nothing but its handler.
Fairness == \A r \in Requests : WF_vars(StepOf(r))

SpecFair == Init /\ [][Step]_vars /\ Fairness

\* ------------------------------------- the metric backend may fail

\* An instrument operation of request r raises instead of updating its
\* instrument.  Python then leaves the statement: outside the try block the
\* exception leaves dispatch; inside else or except it becomes the pending
\* exception and the finally block runs; inside the finally block it
\* replaces whatever was pending and the rest of the block is skipped.
BackendFails(r) ==
    /\ pc[r] \in {"inc_in_progress", "inc_requests", "else", "except",
                  "finally_responses", "finally_dec"}
    /\ exc' = [exc EXCEPT ![r] = BackendError]
    /\ status_code' = [status_code EXCEPT ![r] =
                          CASE pc[r] = "else" -> response[r].status_code
                            [] pc[r] = "except" -> HTTP_500_INTERNAL_SERVER_ERROR
                            [] OTHER -> @]
    /\ pc' = [pc EXCEPT ![r] =
                 IF pc[r] \in {"else", "except"} THEN "finally_responses" ELSE "exit"]
    /\ UNCHANGED <<middleware_stack, clock, instruments, request, path,
                   is_handled_path, before_time, response, outcome, result, log,
                   span, resolver>>

NextBackendFails == Next \/ \E r \in Requests : BackendFails(r)

SpecBackendFails == Init /\ [][NextBackendFails]_vars

\* ------------------------------------------------------ route resolution

\* The routes an application may register.
CandidateRoutes ==
    { [path |-> <<"items", "{id}">>,    methods |-> {"GET"}],
      [path |-> <<"items", "{name}">>,  methods |-> {"POST"}],
      [path |-> <<"items", "special">>, methods |-> {"GET", "POST"}],
      [path |-> <<"health">>,           methods |-> {"GET"}] }

RouteTables ==
    UNION { [1..n -> CandidateRoutes] : n \in 0..MaxRoutes }

InitResolve ==
    /\ Init
    /\ middleware_stack = setting_otlp

\* get_path is called on a request to an application whose route table is
\* `table`.
Resolve(table, r, q) ==
    /\ pc[r] = "idle"
    /\ resolved = NotResolved
    /\ routes' = table
    /\ request' = [request EXCEPT ![r] = q]
    /\ resolved' = get_path(table, q.method, q.url_path)
    /\ UNCHANGED <<middleware_stack, clock, instruments, pc, locals, outcome,
                   result, log, span>>

NextResolve ==
    \E table \in RouteTables, q \in AllRequests : Resolve(table, 1, q)

SpecResolve == InitResolve /\ [][NextResolve]_vars

\* ------------------------------------------------------------ properties

Handled(r) == pc[r] \notin {"idle", "dispatch"} /\ is_handled_path[r]

Unhandled(r) == pc[r] \notin {"idle", "dispatch"} /\ ~is_handled_path[r]

Done(r) == pc[r] = "done"

Succeeded(r) == outcome[r].kind = "response"

Failed(r) == outcome[r].kind = "exception"

\* The operations of request r on one instrument, as positions of its log.
Ops(r, instrument) ==
    { i \in DOMAIN log[r] : log[r][i].instrument = instrument }

OpsBy(r, instrument, amount) ==
    { i \in Ops(r, instrument) : log[r][i].amount = amount }

\* The route identifier and the attributes dispatch is to use for request r.
RouteOf(r) == get_path(routes, request[r].method, request[r].url_path)

AttributesOf(r) ==
    [method |-> request[r].method, path |-> RouteOf(r).path, app_name |-> app_name]

\* The matched requests that stand between their increment and their
\* decrement of the in-progress gauge, per attribute set.
InFlight(labels) ==
    { r \in Requests :
        /\ Handled(r)
        /\ AttributesOf(r) = labels
        /\ pc[r] \in {"inc_requests", "call_next", "else", "except",
                      "finally_responses", "finally_dec"} }

AttributeSets == { AttributesOf(r) : r \in Requests } \cup DOMAIN REQUESTS_IN_PROGRESS

\* C1: a matched request increments the in-progress gauge exactly once and
\* decrements it exactly once, whatever its handler did (returned, raised,
\* was cancelled): once it has completed its operations on the gauge are
\* one +1 and one -1, and at every moment each series of the gauge counts
\* the requests that stand between the two, so that a completed request
\* has a net effect of 0.
C1_InProgressBalanced ==
    /\ \A r \in Requests :
          Handled(r) /\ Done(r) =>
              /\ Cardinality(OpsBy(r, "requests_in_progress", 1)) = 1
              /\ Cardinality(OpsBy(r, "requests_in_progress", -1)) = 1
              /\ Cardinality(Ops(r, "requests_in_progress")) = 2
    /\ \A labels \in AttributeSets :
          Value(REQUESTS_IN_PROGRESS, labels) = Cardinality(InFlight(labels))

\* A matched request whose handler call was cancelled has completed, beside
\* one that returned a response.
C1_Witness ==
    /\ \E r \in Requests :
          /\ Handled(r) /\ Done(r) /\ Failed(r)
          /\ outcome[r].exc.type = "CancelledError"
    /\ \E r \in Requests : Handled(r) /\ Done(r) /\ Succeeded(r)

\* The instrument holds no series for the method and raw path of request r.
NoSeriesFor(instrument, r) ==
    \A labels \in DOMAIN instrument :
        ~(labels.method = request[r].method /\ labels.path = request[r].url_path)

\* C2: a request whose route is unmatched leaves the five instruments
\* alone (it performs no instrument operation, and no instrument holds a
\* series for its method and path), dispatch starts no span for it (where
\* no tracing layer is installed it has none), and its caller receives
\* exactly what the handler returned or raised.
C2_UnmatchedPassThrough ==
    \A r \in Requests :
        Unhandled(r) =>
            /\ log[r] = <<>>
            /\ NoSeriesFor(REQUESTS, r)
            /\ NoSeriesFor(RESPONSES, r)
            /\ NoSeriesFor(EXCEPTIONS, r)
            /\ NoSeriesFor(REQUESTS_IN_PROGRESS, r)
            /\ NoSeriesFor(REQUESTS_PROCESSING_TIME, r)
            /\ path[r] = request[r].url_path
            /\ ~HasSpanLayer(middleware_stack) => span[r] = "none"
            /\ Done(r) => result[r] = outcome[r]

\* An unmatched request has passed its handler's exception on, __cause__
\* and all, while a matched request has updated the instruments.
C2_Witness ==
    \E r, q \in Requests :
        /\ Unhandled(r) /\ Done(r) /\ Failed(r)
        /\ result[r].exc.cause = "KeyError"
        /\ Handled(q) /\ Done(q)

\* C3: a matched request whose handler raised has incremented the exception
\* counter exactly once, tagged with the type name of the raised exception,
\* and the response counter exactly once, with status code 500; both
\* series hold these increments; and its caller receives an exception of
\* the same type and with the same message.
C3_FailureAccounted ==
    \A r \in Requests :
        Handled(r) /\ Done(r) /\ Failed(r) =>
            LET e == outcome[r].exc
                tagged == [method |-> request[r].method, path |-> RouteOf(r).path,
                           app_name |-> app_name, exception_type |-> e.type]
                answered == [method |-> request[r].method, path |-> RouteOf(r).path,
                             app_name |-> app_name,
                             status_code |-> HTTP_500_INTERNAL_SERVER_ERROR]
            IN  /\ Cardinality(Ops(r, "exceptions")) = 1
                /\ \A i \in Ops(r, "exceptions") :
                      log[r][i].labels = tagged /\ log[r][i].amount = 1
                /\ Value(EXCEPTIONS, tagged) >= 1
                /\ Cardinality(Ops(r, "responses")) = 1
                /\ \A i \in Ops(r, "responses") :
                      log[r][i].labels = answered /\ log[r][i].amount = 1
                /\ Value(RESPONSES, answered) >= 1
                /\ result[r].kind = "exception"
                /\ result[r].exc.type = e.type
                /\ result[r].exc.message = e.message

\* A matched request whose handler raised a ValueError has completed.
C3_Witness ==
    \E r \in Requests :
        /\ Handled(r) /\ Done(r) /\ Failed(r)
        /\ outcome[r].exc.type = "ValueError"
        /\ result[r].kind = "exception"

\* C4: a matched request whose handler returned a response has recorded
\* exactly one duration sample, of an elapsed time >= 0, and has
\* incremented the response counter exactly once, in the series of the
\* status code of that response; the histogram and the counter hold them.
C4_SuccessAccounted ==
    \A r \in Requests :
        Handled(r) /\ Done(r) /\ Succeeded(r) =>
            LET answered == [method |-> request[r].method, path |-> RouteOf(r).path,
                             app_name |-> app_name,
                             status_code |-> outcome[r].status_code]
            IN  /\ Cardinality(Ops(r, "requests_processing_time")) = 1
                /\ \A i \in Ops(r, "requests_processing_time") :
                      /\ log[r][i].amount >= 0
                      /\ log[r][i].labels = AttributesOf(r)
                /\ AttributesOf(r) \in DOMAIN REQUESTS_PROCESSING_TIME
                /\ REQUESTS_PROCESSING_TIME[AttributesOf(r)].count >= 1
                /\ REQUESTS_PROCESSING_TIME[AttributesOf(r)].sum >= 0
                /\ Cardinality(Ops(r, "responses")) = 1
                /\ \A i \in Ops(r, "responses") :
                      log[r][i].labels = answered /\ log[r][i].amount = 1
                /\ Value(RESPONSES, answered) >= 1

\* A matched request answered with 404 has completed, and its handler took
\* time.
C4_Witness ==
    \E r \in Requests :
        /\ Handled(r) /\ Done(r) /\ Succeeded(r)
        /\ outcome[r].status_code = 404
        /\ \E i \in Ops(r, "requests_processing_time") : log[r][i].amount > 0

\* The matched requests with these attributes whose handler returned and
\* that have passed the else block.
Observed(labels) ==
    { r \in Requests :
        /\ Handled(r) /\ Succeeded(r)
        /\ AttributesOf(r) = labels
        /\ pc[r] \in {"finally_responses", "finally_dec", "exit", "done"} }

\* C5: the duration histogram is updated on the success path only: a
\* matched request whose handler raised (cancellation included) records no
\* duration sample at any point, no request has both a duration sample and
\* an exception increment, and every series of the histogram counts
\* exactly the requests that have passed the else block.
C5_DurationOnSuccessOnly ==
    /\ \A r \in Requests :
          /\ Handled(r) /\ Failed(r) => Ops(r, "requests_processing_time") = {}
          /\ Ops(r, "requests_processing_time") = {} \/ Ops(r, "exceptions") = {}
    /\ \A labels \in { AttributesOf(r) : r \in Requests } \cup DOMAIN REQUESTS_PROCESSING_TIME :
          IF labels \in DOMAIN REQUESTS_PROCESSING_TIME
          THEN REQUESTS_PROCESSING_TIME[labels].count = Cardinality(Observed(labels))
          ELSE Observed(labels) = {}

\* A matched request has failed and completed after a request with the
\* same attributes recorded its duration.
C5_Witness ==
    \E r, q \in Requests :
        /\ Handled(r) /\ Done(r) /\ Failed(r)
        /\ Handled(q) /\ Done(q) /\ Succeeded(q)
        /\ AttributesOf(r) = AttributesOf(q)
        /\ Ops(r, "exceptions") # {}

\* The matched requests with these attributes that have incremented the
\* request counter.
Counted(labels) ==
    { r \in Requests :
        /\ Handled(r)
        /\ AttributesOf(r) = labels
        /\ pc[r] \notin {"inc_in_progress", "inc_requests"} }

\* Every request is a matched request to the route of request 1.
SameRoute == \A r \in Requests : Handled(r) /\ AttributesOf(r) = AttributesOf(1)

\* C6: when all NumRequests requests go to the same matched route, in any
\* interleaving of their steps, the in-progress gauge of that route is
\* NumRequests while all of them await their handler and 0 once all have
\* completed, and the request counter has then grown by exactly
\* NumRequests; at every moment the request counter of a route counts the
\* requests that have incremented it, none lost and none twice.
C6_ConcurrentSameRoute ==
    /\ SameRoute /\ (\A r \in Requests : pc[r] = "call_next") =>
          /\ Value(REQUESTS_IN_PROGRESS, AttributesOf(1)) = NumRequests
          /\ Value(REQUESTS, AttributesOf(1)) = NumRequests
    /\ SameRoute /\ (\A r \in Requests : Done(r)) =>
          /\ Value(REQUESTS_IN_PROGRESS, AttributesOf(1)) = 0
          /\ Value(REQUESTS, AttributesOf(1)) = NumRequests
    /\ \A labels \in { AttributesOf(r) : r \in Requests } \cup DOMAIN REQUESTS :
          Value(REQUESTS, labels) = Cardinality(Counted(labels))

\* All requests await the handler of the same route at once.
C6_Witness ==
    /\ NumRequests >= 2
    /\ SameRoute
    /\ \A r \in Requests : pc[r] = "call_next"
    /\ Value(REQUESTS_IN_PROGRESS, AttributesOf(1)) = NumRequests

\* How route i of the table drawn matches the request drawn.
MatchOf(i) == matches(routes[i], request[1].method, request[1].url_path)

\* The routes that match the request fully and have no full match before
\* them in the table.
FirstFull ==
    { i \in 1..Len(routes) :
        /\ MatchOf(i) = "FULL"
        /\ \A j \in 1..(i - 1) : MatchOf(j) # "FULL" }

\* C7: for every route table and request, get_path returns the template of
\* the first route in registration order whose match is FULL, with
\* handled = TRUE; a route that matches only partially is never the one
\* returned; and when no route matches fully it returns the raw URL path
\* with handled = FALSE.
C7_FirstFullMatch ==
    request[1] # NoRequest =>
        /\ FirstFull # {} =>
              \E i \in FirstFull :
                  resolved = [path |-> routes[i].path, handled |-> TRUE]
        /\ FirstFull = {} =>
              resolved = [path |-> request[1].url_path, handled |-> FALSE]
        /\ resolved.handled =>
              \E i \in 1..Len(routes) :
                  MatchOf(i) = "FULL" /\ resolved.path = routes[i].path

\* get_path has passed a route that matches partially and returned a later
\* route that matches fully, and whose template differs from it.
C7_Witness ==
    /\ request[1] # NoRequest
    /\ resolved.handled
    /\ \E i, j \in 1..Len(routes) :
          /\ i < j
          /\ MatchOf(i) = "PARTIAL"
          /\ MatchOf(j) = "FULL"
          /\ routes[i].path # routes[j].path
          /\ resolved.path = routes[j].path

InDispatch(r) ==
    pc[r] \in {"inc_in_progress", "inc_requests", "call_next", "else", "except",
               "finally_responses", "finally_dec", "exit"}

Base(labels) ==
    [method |-> labels.method, path |-> labels.path, app_name |-> labels.app_name]

\* C9: every instrument operation of a matched request (request counter,
\* in-progress increment and decrement, response counter, exception
\* counter, duration) carries the same method, route identifier and app
\* name, those computed from the request at the start of dispatch, also
\* while requests with other attributes are interleaved with it.
C9_AttributesStable ==
    \A r \in Requests :
        /\ Handled(r) => path[r] = RouteOf(r).path
        /\ \A i \in DOMAIN log[r] : Base(log[r][i].labels) = AttributesOf(r)

\* A matched request is about to leave its finally block, with its four
\* earlier operations logged, while a request with other attributes
\* awaits its handler.
C9_Witness ==
    \E r, q \in Requests :
        /\ Handled(r) /\ pc[r] = "finally_dec" /\ Len(log[r]) = 4
        /\ Handled(q) /\ pc[q] = "call_next" /\ Len(log[q]) = 2
        /\ AttributesOf(r) # AttributesOf(q)
        /\ RouteOf(r).path # request[r].url_path

\* The handler of request r was invoked and has returned or raised.
Answered(r) == outcome[r].kind # None

\* C10: a failure of the metric backend during the bookkeeping of a matched
\* request never masks the outcome of the request: once the request has
\* completed, its caller has received the response the handler returned,
\* or the exception (type and message) the handler raised.
C10_OutcomeNotMasked ==
    \A r \in Requests :
        Handled(r) /\ Done(r) /\ Answered(r) =>
            /\ Succeeded(r) => result[r] = outcome[r]
            /\ Failed(r) =>
                  /\ result[r].kind = "exception"
                  /\ result[r].exc.type = outcome[r].exc.type
                  /\ result[r].exc.message = outcome[r].exc.message

\* The handler call of matched request r was cancelled.
Cancelled(r) ==
    Handled(r) /\ Failed(r) /\ outcome[r].exc.type = "CancelledError"

\* C11: a matched request whose handler call was cancelled while it was in
\* flight still goes through the finalization: by the time it leaves
\* dispatch it has incremented the response counter once (with status code
\* 500) and decremented the gauge once, the cancellation reaches its
\* caller, and the gauge of its attributes is back to 0 when no request
\* with these attributes is in flight any more.
C11_CancellationFinalized ==
    \A r \in Requests :
        Cancelled(r) =>
            /\ pc[r] \in {"exit", "done"} =>
                  /\ Cardinality(Ops(r, "responses")) = 1
                  /\ \A i \in Ops(r, "responses") :
                        log[r][i].labels.status_code = HTTP_500_INTERNAL_SERVER_ERROR
                  /\ Cardinality(OpsBy(r, "requests_in_progress", -1)) = 1
                  /\ log[r][Len(log[r])] =
                        Event("requests_in_progress", AttributesOf(r), -1, None)
            /\ Done(r) => result[r].exc.type = "CancelledError"
            /\ InFlight(AttributesOf(r)) = {} =>
                  /\ pc[r] \in {"exit", "done"}
                  /\ Value(REQUESTS_IN_PROGRESS, AttributesOf(r)) = 0

\* A cancelled matched request has left dispatch while a request with the
\* same attributes still awaits its handler: the gauge counts that one only.
C11_Witness ==
    \E r, q \in Requests :
        /\ Cancelled(r) /\ Done(r)
        /\ Handled(q) /\ pc[q] = "call_next"
        /\ AttributesOf(q) = AttributesOf(r)
        /\ Value(REQUESTS_IN_PROGRESS, AttributesOf(r)) = 1

\* C12: for every request, matched or not, the caller of dispatch receives
\* what the downstream handler produced: the response it returned, or the
\* exception it raised, unaltered (type, message and __cause__).
C12_OutcomeEquivalent ==
    \A r \in Requests : Done(r) => result[r] = outcome[r]

\* The first route of the table drawn that matches request q fully (no
\* route, when none does).
FirstFullFor(q) ==
    { i \in 1..Len(routes) :
        /\ matches(routes[i], q.method, q.url_path) = "FULL"
        /\ \A j \in 1..(i - 1) : matches(routes[j], q.method, q.url_path) # "FULL" }

\* C13: the route identifier get_path returns is the template of the
\* matched route, not the URL of the request: for every route table, any
\* request whose first fully matching route is that of the request
\* resolved gets the same identifier, whatever the values of its path
\* parameters; the identifier is the raw URL path when handled is FALSE,
\* and the template of a route of the table when it is TRUE.
C13_RouteIdIsTemplate ==
    request[1] # NoRequest =>
        /\ \A q \in AllRequests :
              FirstFullFor(q) # {} /\ FirstFullFor(q) = FirstFullFor(request[1]) =>
                  get_path(routes, q.method, q.url_path) = resolved
        /\ resolved.handled =>
              \E i \in FirstFullFor(request[1]) : resolved.path = routes[i].path
        /\ ~resolved.handled =>
              /\ resolved.path = request[1].url_path
              /\ FirstFullFor(request[1]) = {}

\* get_path has resolved a request to a route with a path parameter, and
\* a request with another URL path resolves to the same route.
C13_Witness ==
    /\ request[1] # NoRequest
    /\ resolved.handled
    /\ resolved.path # request[1].url_path
    /\ \E q \in AllRequests :
          /\ q.url_path # request[1].url_path
          /\ FirstFullFor(q) = FirstFullFor(request[1])
          /\ get_path(routes, q.method, q.url_path) = resolved

\* The caller of dispatch has received the outcome of request r.
Delivered(r) == result[r] # NoResult

\* The sum of the amounts request r has added to the instrument.
RECURSIVE SumOps(_, _, _)
SumOps(r, instrument, i) ==
    IF i = 0 THEN 0
    ELSE SumOps(r, instrument, i - 1)
         + (IF log[r][i].instrument = instrument THEN log[r][i].amount ELSE 0)

\* C14: when the caller of dispatch receives the outcome of a matched
\* request (the response returned, or the exception re-raised), the
\* terminal bookkeeping of that request has been done: the response counter
\* was incremented once, the gauge was decremented once (after its
\* increment, so that the request no longer counts as in flight), where
\* the handler raised the exception counter was incremented once, and
\* each of these series holds the update.
C14_BookkeepingBeforeOutcome ==
    \A r \in Requests :
        Handled(r) /\ Delivered(r) =>
            /\ Cardinality(Ops(r, "responses")) = 1
            /\ \A i \in Ops(r, "responses") : Value(RESPONSES, log[r][i].labels) >= 1
            /\ Cardinality(OpsBy(r, "requests_in_progress", -1)) = 1
            /\ SumOps(r, "requests_in_progress", Len(log[r])) = 0
            /\ r \notin InFlight(AttributesOf(r))
            /\ Failed(r) =>
                  /\ Cardinality(Ops(r, "exceptions")) = 1
                  /\ \A i \in Ops(r, "exceptions") :
                        Value(EXCEPTIONS, log[r][i].labels) >= 1
            /\ pc[r] = "done"

\* The callers of two matched requests have their outcomes, a response
\* and a re-raised exception.
C14_Witness ==
    \E r, q \in Requests :
        /\ Handled(r) /\ Delivered(r) /\ result[r].kind = "response"
        /\ Handled(q) /\ Delivered(q) /\ result[q].kind = "exception"

\* The matched requests with these attributes whose handler is pending.
Pending(labels) ==
    { r \in Requests :
        Handled(r) /\ pc[r] = "call_next" /\ AttributesOf(r) = labels }

\* C15: a matched request does nothing of its finalization (response
\* counter, gauge decrement) and records nothing of its outcome (duration
\* sample, exception counter) before its handler call has returned or
\* raised; while the handler is pending its own contribution to the gauge
\* is +1, its operations are the two that precede the call, and the gauge
\* of its attributes counts at least the pending requests.
C15_NoFinalizationWhilePending ==
    \A r \in Requests :
        /\ Handled(r) /\ ~Answered(r) =>
              /\ Ops(r, "responses") = {}
              /\ OpsBy(r, "requests_in_progress", -1) = {}
              /\ Ops(r, "requests_processing_time") = {}
              /\ Ops(r, "exceptions") = {}
              /\ status_code[r] = Unbound
        /\ Handled(r) /\ pc[r] = "call_next" =>
              /\ ~Answered(r)
              /\ log[r] = << Event("requests_in_progress", AttributesOf(r), 1, None),
                             Event("requests", AttributesOf(r), 1, None) >>
              /\ SumOps(r, "requests_in_progress", Len(log[r])) = 1
              /\ Value(REQUESTS_IN_PROGRESS, AttributesOf(r))
                    >= Cardinality(Pending(AttributesOf(r)))

\* The handler of a matched request is pending, and the gauge counts it,
\* while a request with the same attributes has gone through its whole
\* finalization.
C15_Witness ==
    \E r, q \in Requests :
        /\ Handled(r) /\ pc[r] = "call_next"
        /\ Handled(q) /\ Done(q) /\ AttributesOf(q) = AttributesOf(r)
        /\ Value(REQUESTS_IN_PROGRESS, AttributesOf(r)) = 1
        /\ Value(RESPONSES, log[q][4].labels) = 1

\* The places of dispatch that precede the return of the handler call.
BeforeAnswer == {"idle", "dispatch", "inc_in_progress", "inc_requests", "call_next"}

\* C16: dispatch invokes the downstream handler exactly once per request,
\* on the matched and on the unmatched path: no request completes without
\* its handler having been invoked and having answered; a request enters
\* the handler call from the one call site of its path only, and only
\* while its handler has not answered; and once the handler has answered
\* (by a response or by an exception) the request is past the call for
\* good and the answer is never replaced by that of another call.
C16_HandlerInvokedOnce ==
    /\ [](\A r \in Requests :
            /\ Done(r) => Answered(r)
            /\ Answered(r) => pc[r] \notin BeforeAnswer)
    /\ [][\A r \in Requests :
            /\ pc'[r] = "call_next" /\ pc[r] # "call_next" =>
                  /\ ~Answered(r)
                  /\ pc[r] = IF is_handled_path'[r] THEN "inc_requests" ELSE "dispatch"
            /\ Answered(r) => outcome'[r] = outcome[r]
            /\ pc[r] \notin BeforeAnswer => pc'[r] \notin BeforeAnswer]_vars

\* An unmatched request and a matched request whose handler raised have
\* both completed.
C16_Witness ==
    \E r, q \in Requests :
        /\ Unhandled(r) /\ Done(r) /\ Answered(r)
        /\ Handled(q) /\ Done(q) /\ Failed(q) /\ Len(log[q]) = 5

\* Matched request r has entered IN_FLIGHT: it has incremented the gauge
\* and its handler has not answered yet.
EnteredInFlight(r) == Handled(r) /\ pc[r] \in {"inc_requests", "call_next"}

\* Matched request r has gone through SUCCESS or FAILED and then DONE.
Finalized(r) ==
    /\ pc[r] \in {"exit", "done"}
    /\ Cardinality(Ops(r, "responses")) = 1
    /\ Cardinality(OpsBy(r, "requests_in_progress", -1)) = 1
    /\ \/ /\ Succeeded(r)
          /\ Cardinality(Ops(r, "requests_processing_time")) = 1
          /\ Ops(r, "exceptions") = {}
       \/ /\ Failed(r)
          /\ Cardinality(Ops(r, "exceptions")) = 1
          /\ Ops(r, "requests_processing_time") = {}

\* C17: provided every handler call eventually returns or raises (and the
\* event loop keeps running dispatch), every matched request that has
\* entered IN_FLIGHT eventually reaches DONE, with the response counter
\* incremented and the gauge decremented, after exactly one of SUCCESS
\* (a duration sample) and FAILED (an exception increment).
C17_EventuallyDone ==
    \A r \in Requests : EnteredInFlight(r) ~> Finalized(r)

\* A matched request has reached DONE through FAILED and returned to its
\* caller, and another has reached DONE through SUCCESS and is about to.
C17_Witness ==
    \E r, q \in Requests :
        /\ Finalized(r) /\ Failed(r) /\ pc[r] = "done"
        /\ Finalized(q) /\ Succeeded(q) /\ pc[q] = "exit"

RECURSIVE ResponsesTotalOver(_, _)
\* The sum of the response counter over those of the given series whose
\* method, route identifier and app name are `labels`.
ResponsesTotalOver(labels, series) ==
    IF series = {} THEN 0
    ELSE LET one == CHOOSE l \in series : TRUE
         IN  (IF Base(one) = labels THEN RESPONSES[one] ELSE 0)
             + ResponsesTotalOver(labels, series \ {one})

\* responses_total of an attribute set, summed over status codes.
ResponsesTotal(labels) == ResponsesTotalOver(labels, DOMAIN RESPONSES)

\* C18: in every reachable state of every interleaving of the requests, for
\* each attribute set (method, route identifier, app name):
\* in-progress gauge >= requests_total - responses_total >= 0, the gauge is
\* never negative, and when no request with these attributes is in
\* progress requests_total = responses_total and the gauge is 0.
C18_GaugeBoundsBacklog ==
    \A labels \in AttributeSets \cup DOMAIN REQUESTS :
        /\ Value(REQUESTS_IN_PROGRESS, labels)
              >= Value(REQUESTS, labels) - ResponsesTotal(labels)
        /\ Value(REQUESTS, labels) - ResponsesTotal(labels) >= 0
        /\ Value(REQUESTS_IN_PROGRESS, labels) >= 0
        /\ InFlight(labels) = {} =>
              /\ Value(REQUESTS, labels) = ResponsesTotal(labels)
              /\ Value(REQUESTS_IN_PROGRESS, labels) = 0

\* Two requests with the same attributes are in progress, one of them
\* between its response increment (with status code 500) and its gauge
\* decrement, so that the gauge exceeds the backlog.
C18_Witness ==
    \E r, q \in Requests :
        /\ r # q
        /\ AttributesOf(r) = AttributesOf(q)
        /\ Handled(r) /\ pc[r] = "finally_dec" /\ status_code[r] = 500
        /\ Handled(q) /\ pc[q] = "call_next"
        /\ Value(REQUESTS_IN_PROGRESS, AttributesOf(r)) = 2
        /\ Value(REQUESTS, AttributesOf(r)) - ResponsesTotal(AttributesOf(r)) = 1

\* The series of an instrument that carry other attributes than `labels`
\* are the same after the step as before it, and none is created.
OthersUnchanged(before, after, labels) ==
    /\ DOMAIN before \subseteq DOMAIN after
    /\ \A l \in DOMAIN after :
          Base(l) # labels => l \in DOMAIN before /\ after[l] = before[l]

\* C19: a step of a request with attributes (method M, route identifier R,
\* app name A) changes only series labelled with M, R and A: the request,
\* response, exception, in-progress and duration series of every other
\* method/route label set are the same after the step as before it, and
\* no series of another label set is created by it.
C19_FramePerLabelSet ==
    [][\A r \in Requests :
          pc'[r] # pc[r] =>
              /\ OthersUnchanged(REQUESTS, REQUESTS', AttributesOf(r))
              /\ OthersUnchanged(RESPONSES, RESPONSES', AttributesOf(r))
              /\ OthersUnchanged(EXCEPTIONS, EXCEPTIONS', AttributesOf(r))
              /\ OthersUnchanged(REQUESTS_IN_PROGRESS, REQUESTS_IN_PROGRESS',
                                 AttributesOf(r))
              /\ OthersUnchanged(REQUESTS_PROCESSING_TIME, REQUESTS_PROCESSING_TIME',
                                 AttributesOf(r))]_vars

\* Two matched requests with different methods and routes have completed,
\* one answered and one failed, and each label set holds its own series.
C19_Witness ==
    \E r, q \in Requests :
        /\ Handled(r) /\ Done(r) /\ Succeeded(r)
        /\ Handled(q) /\ Done(q) /\ Failed(q)
        /\ AttributesOf(r).method # AttributesOf(q).method
        /\ AttributesOf(r).path # AttributesOf(q).path
        /\ Value(REQUESTS, AttributesOf(r)) = 1
        /\ Value(REQUESTS, AttributesOf(q)) = 1
        /\ AttributesOf(r) \in DOMAIN REQUESTS_PROCESSING_TIME
        /\ AttributesOf(q) \notin DOMAIN REQUESTS_PROCESSING_TIME

\* An instrument update without its exemplar.  The amount of a duration
\* sample is the time the handler took, which is no function of the
\* request and its outcome: it is left out of the comparison (as 0).
Update(e) ==
    [instrument |-> e.instrument, labels |-> e.labels,
     amount |-> IF e.instrument = "requests_processing_time" THEN 0 ELSE e.amount]

\* The updates a matched request is to apply, in order, computed from the
\* request, the route table and the outcome of the handler alone (not from
\* the middleware installed).
ExpectedUpdates(r) ==
    LET base == AttributesOf(r)
        code == IF Succeeded(r) THEN outcome[r].status_code
                ELSE HTTP_500_INTERNAL_SERVER_ERROR
        recorded ==
            IF Succeeded(r)
            THEN [instrument |-> "requests_processing_time", labels |-> base,
                  amount |-> 0]
            ELSE [instrument |-> "exceptions",
                  labels |-> [method |-> base.method, path |-> base.path,
                              app_name |-> base.app_name,
                              exception_type |-> outcome[r].exc.type],
                  amount |-> 1]
    IN  << [instrument |-> "requests_in_progress", labels |-> base, amount |-> 1],
           [instrument |-> "requests", labels |-> base, amount |-> 1],
           recorded,
           [instrument |-> "responses",
            labels |-> [method |-> base.method, path |-> base.path,
                        app_name |-> base.app_name, status_code |-> code],
            amount |-> 1],
           [instrument |-> "requests_in_progress", labels |-> base, amount |-> -1] >>

\* C20: PrometheusMiddleware.dispatch and OtelMiddleware.dispatch apply
\* the same sequence of instrument updates for the same request, route
\* table and handler outcome: under either middleware a completed matched
\* request has applied in-progress +1, requests +1, the duration sample
\* or exceptions +1, responses +1 and in-progress -1, in this order, with
\* the labels and the status code that follow from the request and the
\* outcome; the two differ in the exemplar of the duration sample only,
\* a trace id (32 hex digits) under PrometheusMiddleware and none under
\* OtelMiddleware, and no other update carries an exemplar.
C20_VariantsEquivalent ==
    \A r \in Requests :
        Handled(r) /\ Done(r) =>
            /\ [i \in DOMAIN log[r] |-> Update(log[r][i])] = ExpectedUpdates(r)
            /\ \A i \in DOMAIN log[r] :
                  IF /\ log[r][i].instrument = "requests_processing_time"
                     /\ MetricsMiddleware(middleware_stack) = "PrometheusMiddleware"
                  THEN /\ log[r][i].exemplar # None
                       /\ Len(log[r][i].exemplar) = 32
                  ELSE log[r][i].exemplar = None

\* Under PrometheusMiddleware a matched request answered with 404 has
\* completed, its duration sample carrying an exemplar, beside a matched
\* request whose handler raised.
C20_Witness ==
    /\ MetricsMiddleware(middleware_stack) = "PrometheusMiddleware"
    /\ \E r, q \in Requests :
          /\ Handled(r) /\ Done(r) /\ Succeeded(r) /\ outcome[r].status_code = 404
          /\ log[r][3].exemplar # None
          /\ Handled(q) /\ Done(q) /\ Failed(q) /\ Len(log[q]) = 5

====
